---- MODULE Spec2Model ----
(***************************************************************************)
(* Vortex-Launcher download subsystem (src/src/download_manager.py):       *)
(*   - ChunkDownloader: byte-range partition, chunk workers, merge, cancel  *)
(*   - DownloadManager: download_blender / cancel_download / notifications  *)
(*   - DownloadManager: get_available_versions and the version cache        *)
(* Six specifications share the module:                                     *)
(*   SpecRanges   the range computation of ChunkDownloader.start            *)
(*   SpecChunked  one chunked task of a download id, with cancel_download   *)
(*   SpecRestart  the id is started again while its task is active          *)
(*   SpecSingle   one single-stream task (DownloadWorker) with cancel        *)
(*   SpecResolver version discovery, cache and get_download_url             *)
(*   SpecExtract  extract_blender on an archive                             *)
(***************************************************************************)
EXTENDS Integers, Sequences, FiniteSets, TLC

\* ------------------------------------------------------------------ bounds
MaxTotal == 12      \* SpecRanges: largest totalSize drawn
MaxChunks == 5      \* SpecRanges: largest chunkCount drawn
MaxGen == 2         \* SpecRestart: downloaders constructed for the id
ChunkCount == 2     \* SpecChunked: thread_count of the configuration
FileSize == 3       \* SpecChunked: Content-Length of the archive
MaxObj == 2         \* SpecResolver: descriptors constructed
MaxList == 2        \* SpecResolver: descriptors one strategy returns
MaxEntries == 3     \* SpecExtract: entries of the archive

VARIABLES
    \* SpecRanges
    totalSize,          \* input: Content-Length
    chunkCount,         \* input: chunk_count
    ranges,             \* <<start, end>> per chunk once start has computed them
    mergedSize,         \* length of <save_path> once _merge_chunks wrote it, else -1
    \* SpecChunked
    thread_count,       \* config: the chunk_count given to every ChunkDownloader
    remote_size,        \* Content-Length the server reports for the archive
    current_downloads,  \* 0: id not in the dict, g: downloader g registered
    nextGen,            \* next downloader to construct
    dl,                 \* per downloader: is_canceled, total_size, ..., and what
                        \* its probing request (head) came back with
    workers,            \* per downloader, per chunk: the worker thread
    temp_dir,           \* <save_path>.chunks exists
    chunk_file,         \* <save_path>.chunks/chunk_<i>
    dest_file,          \* <save_path>
    queue,              \* signals queued to the main thread's event loop
    notes,              \* what the caller was told, per task (last: the downloaded
                        \* value of the latest progress): signals emitted by
                        \* DownloadManager, and True returned by its cancel_download
    merge_log,          \* what _merge_chunks read and wrote, per task, and whether
                        \* <save_path>.chunks was left when it signalled
    \* SpecResolver
    heap,               \* BlenderVersionInfo objects
    nextObj,            \* next object to construct
    version_cache,      \* insertion-ordered dict: <<key, object>> entries
    cache_file,         \* version_cache.json
    use_mirror,         \* config
    pass,               \* the last get_available_versions call
    requested,          \* the descriptors for which download_blender returned an id
    last_op,            \* the last operation on the cache, and what became of its
                        \* write of version_cache.json
    \* SpecSingle
    single,             \* the DownloadWorker thread of the id
    part_file,          \* <save_path>.part
    cancel_log,         \* the last cancel_download call: what it found and returned
    \* SpecExtract
    zip_names,          \* zip_ref.namelist() of the archive at zip_path
    extracted           \* what extract_blender did and returned

rvars == <<totalSize, chunkCount, ranges, mergedSize>>
cvars == <<thread_count, remote_size>>
dvars == <<current_downloads, nextGen, dl, workers, temp_dir, chunk_file,
           dest_file, queue, notes, merge_log>>
svars == <<single, part_file, cancel_log>>
xvars == <<zip_names, extracted>>
vvars == <<heap, nextObj, version_cache, cache_file, use_mirror, pass, requested, last_op>>
vars == <<rvars, cvars, dvars, vvars, svars, xvars>>

\* ------------------------------------------------------------ ChunkDownloader.start: ranges
\* chunk_size = self.total_size // self.chunk_count
ChunkSize(total, count) == total \div count

\* the start of a chunk were offsets counted from one
ChunkStartFromOne(i, total, count) == i * ChunkSize(total, count) + 1

\* start = i * chunk_size
ChunkStart(i, total, count) == i * ChunkSize(total, count)

\* the end of a chunk were the last chunk cut like the others
ChunkEndNoRemainder(i, total, count) == (i + 1) * ChunkSize(total, count) - 1

\* end = (i + 1) * chunk_size - 1 if i < self.chunk_count - 1 else self.total_size - 1
ChunkEnd(i, total, count) ==
    IF i < count - 1 THEN (i + 1) * ChunkSize(total, count) - 1 ELSE total - 1

\* the length handed to _download_chunk: end - start + 1
ChunkLen(i, total, count) == ChunkEnd(i, total, count) - ChunkStart(i, total, count) + 1

\* for i in range(self.chunk_count): the list of <<start, end>>
ComputeRanges(total, count) ==
    [k \in 1..count |-> <<ChunkStart(k - 1, total, count), ChunkEnd(k - 1, total, count)>>]

RECURSIVE SumLen(_)
SumLen(rs) == IF rs = <<>> THEN 0 ELSE (rs[1][2] - rs[1][1] + 1) + SumLen(Tail(rs))

\* ------------------------------------------------------------ SpecRanges
InitDownloads ==
    /\ current_downloads = 0
    /\ nextGen = 1
    /\ dl = [g \in 1..MaxGen |-> [is_canceled |-> FALSE, total_size |-> 0,
                                  downloaded_size |-> 0, downloaded_chunks |-> <<>>,
                                  mutex |-> -1, head |-> "none"]]
    /\ workers = [g \in 1..MaxGen |-> [i \in 0..(ChunkCount - 1) |->
                     [pc |-> "none", pos |-> 0, buf |-> 0, fd |-> "closed",
                      term |-> FALSE, err |-> "none", reg |-> 0]]]
    /\ temp_dir = FALSE
    /\ chunk_file = [i \in 0..(ChunkCount - 1) |-> [exists |-> FALSE, data |-> <<>>]]
    /\ dest_file = [exists |-> FALSE, data |-> <<>>]
    /\ queue = <<>>
    /\ notes = [g \in 1..MaxGen |-> [progress |-> 0, last |-> 0, completed |-> 0,
                                     failed |-> 0,
                                     cancelled |-> 0]]
    /\ merge_log = [g \in 1..MaxGen |-> [ran |-> FALSE, ok |-> FALSE, order |-> <<>>,
                                         parts |-> chunk_file, out |-> <<>>,
                                         left |-> FALSE]]
    /\ single = [pc |-> "none", is_canceled |-> FALSE, pos |-> 0, buf |-> 0,
                 fd |-> "closed", err |-> "none", settled_canceled |-> FALSE]
    /\ part_file = [exists |-> FALSE, data |-> <<>>]
    /\ cancel_log = [called |-> FALSE, had |-> FALSE, result |-> "none", has |-> FALSE]

InitVersions ==
    /\ heap = [o \in 1..MaxObj |-> [version |-> <<>>, url |-> "none"]]
    /\ nextObj = 1
    /\ version_cache = <<>>
    /\ cache_file = <<>>
    /\ use_mirror = TRUE
    /\ pass = [ran |-> FALSE, calls |-> <<>>,
               results |-> [direct |-> <<>>, mirror |-> <<>>, official |-> <<>>],
               all |-> <<>>, fallback |-> FALSE, fault |-> FALSE, raised |-> FALSE,
               errors |-> {}, returned |-> <<>>,
               before |-> <<>>, after |-> <<>>, heap_before |-> heap, heap_after |-> heap]
    /\ requested = {}
    /\ last_op = [op |-> "none", write |-> "none"]

InitOneTask ==
    /\ thread_count = ChunkCount
    /\ remote_size = FileSize

InitExtractIdle ==
    /\ zip_names = <<>>
    /\ extracted = [ran |-> FALSE, returned |-> <<>>, rooted |-> FALSE, target |-> <<>>,
                    files |-> {}]

InitRangesIdle ==
    /\ totalSize = 1
    /\ chunkCount = 1
    /\ ranges = <<>>
    /\ mergedSize = -1

\* the drawn inputs, and the archive of 1,000,000 bytes fetched in 4 chunks
InitRanges ==
    /\ \E input \in ((1..MaxTotal) \X (1..MaxChunks)) \cup {<<1000 * 1000, 2 * 2>>} :
           /\ totalSize = input[1]
           /\ chunkCount = input[2]
    /\ ranges = <<>>
    /\ mergedSize = -1
    /\ InitOneTask
    /\ InitDownloads
    /\ InitExtractIdle
    /\ InitVersions

\* ChunkDownloader.start, lines 211-221, on the drawn Content-Length and chunk_count
StartRanges ==
    /\ ranges = <<>>
    /\ ranges' = ComputeRanges(totalSize, chunkCount)
    /\ UNCHANGED <<totalSize, chunkCount, mergedSize, cvars, xvars, dvars, vvars, svars>>

\* _download_chunk then _merge_chunks, every worker succeeding: chunk_<i> holds the
\* end - start + 1 bytes of its Range, and outfile receives each chunk file whole
MergeRanges ==
    /\ ranges # <<>>
    /\ mergedSize = -1
    /\ mergedSize' = SumLen(ranges)
    /\ UNCHANGED <<totalSize, chunkCount, ranges, cvars, xvars, dvars, vvars, svars>>

NextRanges == StartRanges \/ MergeRanges

SpecRanges == InitRanges /\ [][NextRanges]_vars

\* C1: for every totalSize >= 1 and chunkCount >= 1 the ranges start computes are
\* contiguous (first starts at 0, each next starts at end+1, last ends at
\* totalSize-1), pairwise share no byte, and their lengths sum to totalSize.
C1_RangesPartition ==
    ranges # <<>> =>
        /\ Len(ranges) = chunkCount
        /\ ranges[1][1] = 0
        /\ \A k \in 1..(chunkCount - 1) : ranges[k + 1][1] = ranges[k][2] + 1
        /\ ranges[chunkCount][2] = totalSize - 1
        /\ \A j, k \in 1..chunkCount :
              j # k => (ranges[j][1]..ranges[j][2]) \cap (ranges[k][1]..ranges[k][2]) = {}
        /\ SumLen(ranges) = totalSize

\* C36: for every totalSize >= 1 and chunkCount >= 1 every chunk's range is
\* well-formed and non-empty (0 <= start <= end <= totalSize-1), so that every Range
\* header sent is a valid byte range, totalSize < chunkCount included.
C36_RangesWellFormed ==
    \A k \in 1..Len(ranges) :
        /\ 0 <= ranges[k][1]
        /\ ranges[k][1] <= ranges[k][2]
        /\ ranges[k][2] <= totalSize - 1

\* a computed partition with a remainder absorbed by the last chunk
C1_Witness ==
    /\ totalSize = 11
    /\ chunkCount = 3
    /\ ranges = <<<<0, 2>>, <<3, 5>>, <<6, 10>>>>

\* C12: for totalSize = 1,000,000 and chunkCount = 4 the ranges are exactly
\* [0,249999], [250000,499999], [500000,749999], [750000,999999], and with all four
\* workers succeeding the merged file is exactly 1,000,000 bytes long.
C12_MillionInFour ==
    (totalSize = 1000 * 1000 /\ chunkCount = 4) =>
        /\ ranges # <<>> => ranges = << <<0, 249999>>, <<250000, 499999>>,
                                        <<500000, 749999>>, <<750000, 999999>> >>
        /\ mergedSize # -1 => mergedSize = 1000 * 1000

C12_Witness ==
    /\ totalSize = 1000 * 1000
    /\ chunkCount = 4
    /\ Len(ranges) = 4
    /\ mergedSize = 1000 * 1000

\* ------------------------------------------------------------ SpecChunked: helpers
Gens == 1..MaxGen
Chunks == 0..(ChunkCount - 1)

\* the bytes the server holds for the URL (all distinct, so order is observable)
Content == [k \in 1..FileSize |-> k]

NoFile == [exists |-> FALSE, data |-> <<>>]
File(d) == [exists |-> TRUE, data |-> d]

\* the body of a 206 answer to Range: bytes=start-end
RangeBytes(i, total, count) ==
    [k \in 1..ChunkLen(i, total, count) |-> Content[ChunkStart(i, total, count) + k]]

Event(t, g, i, cur) == [type |-> t, g |-> g, i |-> i, cur |-> cur]

\* f.write(data) at the handle's offset; a write past the end leaves a hole of zeros
WriteAt(data, off, b) ==
    IF off < Len(data) THEN [data EXCEPT ![off + 1] = b]
    ELSE data \o [k \in 1..(off - Len(data)) |-> 0] \o <<b>>

\* chunk files some thread still holds open through a handle on the file at the path
OpenChunks(w) == {i \in Chunks : \E g \in Gens : w[g][i].fd = "live"}

\* shutil.rmtree(self.temp_dir, ignore_errors=True): the tree is removed; where the
\* platform refuses to delete a file that is held open (Windows, the launcher's
\* platform) the error is ignored and those files and the directory stay. Each
\* outcome is the set of chunk files that survive.
RmtreeOutcomes(w) == {{}, OpenChunks(w)}

\* ChunkDownloader._cleanup on the state S = [dl, workers, temp_dir, chunk_file]
cleanup(S, keep) ==
    IF ~S.temp_dir THEN S
    ELSE [S EXCEPT
            !.temp_dir = (keep # {}),
            !.chunk_file = [i \in Chunks |-> IF i \in keep THEN S.chunk_file[i] ELSE NoFile],
            !.workers = [g \in Gens |-> [i \in Chunks |->
                           IF i \notin keep /\ S.workers[g][i].fd = "live"
                           THEN [S.workers[g][i] EXCEPT !.fd = "stale"]
                           ELSE S.workers[g][i]]]]

\* worker.terminate() for every worker of downloader g: asks the thread to die; the
\* thread may die at once or run on for a while (no wait() follows)
terminate(w, g) ==
    [w EXCEPT ![g] = [i \in Chunks |->
        IF w[g][i].pc \in {"none", "done"} THEN w[g][i]
        ELSE [w[g][i] EXCEPT !.term = TRUE]]]

\* ChunkDownloader.cancel
cancel(S, g, keep) ==
    cleanup([S EXCEPT !.dl[g].is_canceled = TRUE, !.workers = terminate(S.workers, g)],
            keep)

Here == [dl |-> dl, workers |-> workers, temp_dir |-> temp_dir, chunk_file |-> chunk_file]

Put(S) ==
    /\ dl' = S.dl
    /\ workers' = S.workers
    /\ temp_dir' = S.temp_dir
    /\ chunk_file' = S.chunk_file

\* ------------------------------------------------------------ SpecChunked: main thread
\* int(response.headers.get('Content-Length', 0)) of the answer to requests.head:
\* the header is absent, or carries a negative number, or the size of the archive
HeadLength(head) ==
    CASE head = "nosize" -> 0
      [] head = "negative" -> -1
      [] OTHER -> remote_size

\* the size test were never to fire
NoSizeNever(total) == FALSE

\* if self.total_size <= 0
NoSize(total) == total <= 0

\* ChunkDownloader.start for downloader g; head is what requests.head gave
start(S, g, head, keep) ==
    LET S1 == [S EXCEPT !.temp_dir = TRUE, !.dl[g].head = head]
        S2 == [S1 EXCEPT !.dl[g].total_size = HeadLength(head)]
    IN  CASE head = "raise" -> cleanup(S1, keep)
          [] head # "raise" /\ NoSize(HeadLength(head)) -> S2
          [] OTHER ->
               [S2 EXCEPT !.workers[g] = [i \in Chunks |->
                              IF i < thread_count
                              THEN [pc |-> "req", pos |-> 0, buf |-> 0, fd |-> "closed",
                                    term |-> FALSE, err |-> "none", reg |-> 0]
                              ELSE S2.workers[g][i]]]

\* DownloadManager.download_blender for a descriptor whose url is a .zip file, with
\* use_multi_thread set: cancels a registered downloader of the id, constructs and
\* registers downloader g, and runs its start() to the end. error_signal emitted by
\* start in the caller's thread reaches download_error at once.
download_blender(limit) ==
    /\ nextGen <= limit
    /\ \E head \in {"raise", "nosize", "negative", "ok"} :
       \E keep1 \in RmtreeOutcomes(workers) :
          LET g == nextGen
              S0 == IF current_downloads # 0
                    THEN cancel(Here, current_downloads, keep1) ELSE Here
          IN  \E keep2 \in RmtreeOutcomes(S0.workers) :
                 /\ Put(start(S0, g, head, keep2))
                 /\ current_downloads' = g
                 /\ nextGen' = g + 1
                 /\ notes' = IF head = "raise" \/ NoSize(HeadLength(head))
                             THEN [notes EXCEPT ![g].failed = @ + 1]
                             ELSE notes
    /\ UNCHANGED <<dest_file, queue, merge_log, cvars, xvars, rvars, vvars, svars>>

\* DownloadManager.cancel_download(id) called by the user of the manager with id
\* registered: it emits no signal and returns True to its caller; no .part file
\* exists for a chunked task. (download_blender calls it too and drops the result.)
cancel_download ==
    /\ current_downloads # 0
    /\ \E keep \in RmtreeOutcomes(workers) : Put(cancel(Here, current_downloads, keep))
    /\ current_downloads' = 0
    /\ notes' = [notes EXCEPT ![current_downloads].cancelled = @ + 1]
    /\ UNCHANGED <<nextGen, dest_file, queue, merge_log, cvars, xvars, rvars, vvars, svars>>

\* self.downloaded_chunks.sort(key=lambda x: x[0])
RECURSIVE InsertSorted(_, _)
InsertSorted(x, s) ==
    IF s = <<>> THEN <<x>>
    ELSE IF x < s[1] THEN <<x>> \o s
    ELSE <<s[1]>> \o InsertSorted(x, Tail(s))

RECURSIVE SortFrom(_, _)
SortFrom(s, acc) == IF s = <<>> THEN acc ELSE SortFrom(Tail(s), InsertSorted(s[1], acc))

\* the list as the finished signals appended to it
SortChunksUnsorted(s) == s

\* self.downloaded_chunks.sort(key=lambda x: x[0])
SortChunks(s) == SortFrom(s, <<>>)

\* for _, chunk_path in self.downloaded_chunks: outfile.write(infile.read()), for the
\* first n entries of order
RECURSIVE ConcatFiles(_, _, _)
ConcatFiles(order, files, n) ==
    IF n = 0 THEN <<>>
    ELSE ConcatFiles(order, files, n - 1) \o files[order[n]].data

\* the first entry of order the merge cannot get through: its chunk file is missing,
\* or the I/O error failAt strikes there; Len(order)+1 when it gets through all
RECURSIVE MergeStop(_, _, _, _)
MergeStop(order, files, failAt, k) ==
    IF k > Len(order) THEN k
    ELSE IF k = failAt \/ ~files[order[k]].exists THEN k
    ELSE MergeStop(order, files, failAt, k + 1)

\* ChunkDownloader._merge_chunks of downloader g, with finished_signal reaching
\* DownloadManager._on_download_finished in the same thread
merge_chunks(g, chunks) ==
    \E failAt \in 1..(thread_count + 1) : \E keep \in RmtreeOutcomes(workers) :
        LET order == SortChunks(chunks)
            stop == MergeStop(order, chunk_file, failAt, 1)
            ok == stop > Len(order)
            out == ConcatFiles(order, chunk_file, stop - 1)
            cleaned == cleanup([Here EXCEPT !.dl[g].downloaded_chunks = order], keep)
        IN  /\ dest_file' = File(out)
            /\ Put(cleaned)
            /\ merge_log' = [merge_log EXCEPT ![g] =
                   [ran |-> TRUE, ok |-> ok, order |-> chunks, parts |-> chunk_file,
                    out |-> out, left |-> cleaned.temp_dir]]
            /\ IF ok
               THEN IF current_downloads # 0
                    THEN /\ notes' = [notes EXCEPT ![g].completed = @ + 1]
                         /\ current_downloads' = 0
                    ELSE UNCHANGED <<notes, current_downloads>>
               ELSE /\ notes' = [notes EXCEPT ![g].failed = @ + 1]
                    /\ UNCHANGED current_downloads

\* lock() were to return at once, held or not
MutexFreeAlways(m) == TRUE

\* self.mutex.lock() returns once nobody holds the mutex
MutexFree(m) == m = -1

\* the merge were started by the first worker that reports
AnyChunkReported(chunks) == Len(chunks) >= 1

\* if len(self.downloaded_chunks) == self.chunk_count
AllChunksReported(chunks) == Len(chunks) = thread_count

\* ChunkDownloader._on_chunk_finished(i), the slot of worker i's finished signal
on_chunk_finished(g, i) ==
    IF dl[g].is_canceled
    THEN UNCHANGED <<dl, workers, temp_dir, chunk_file, dest_file, notes, merge_log,
                     current_downloads>>
    ELSE /\ MutexFree(dl[g].mutex)
         /\ LET chunks == Append(dl[g].downloaded_chunks, i)
            IN  IF AllChunksReported(chunks)
                THEN merge_chunks(g, chunks)
                ELSE /\ dl' = [dl EXCEPT ![g].downloaded_chunks = chunks]
                     /\ UNCHANGED <<workers, temp_dir, chunk_file, dest_file, notes,
                                    merge_log, current_downloads>>

\* the event loop of the main thread takes the next queued signal: the lambdas that
\* download_blender connected (progress, error) or _on_chunk_finished
Deliver ==
    /\ queue # <<>>
    /\ queue' = Tail(queue)
    /\ LET e == Head(queue)
       IN  CASE e.type = "progress" ->
                  /\ notes' = [notes EXCEPT ![e.g].progress = @ + 1, ![e.g].last = e.cur]
                  /\ UNCHANGED <<dl, workers, temp_dir, chunk_file, dest_file, merge_log,
                                 current_downloads>>
             [] e.type = "error" ->
                  /\ notes' = [notes EXCEPT ![e.g].failed = @ + 1]
                  /\ UNCHANGED <<dl, workers, temp_dir, chunk_file, dest_file, merge_log,
                                 current_downloads>>
             [] OTHER -> on_chunk_finished(e.g, e.i)
    /\ UNCHANGED <<nextGen, cvars, xvars, rvars, vvars, svars>>

\* ------------------------------------------------------------ SpecChunked: chunk workers
\* the loop were to go on without looking at the flag
FlagSeenNever(flag) == FALSE

\* if self.is_canceled: break, at the head of the loop body of _download_chunk's
\* run() and of DownloadWorker.run
FlagSeen(flag) == flag

\* the steps of the run() that _download_chunk returns, for worker i of downloader g.
\* A run() that returns ends the thread, which queues its finished signal.
Alive(g, i) == workers[g][i].pc \notin {"none", "done"}

\* except Exception as e: self.error_signal.emit(...), then the thread ends
Raise(g, i, why) ==
    /\ workers' = [workers EXCEPT ![g][i].pc = "done", ![g][i].fd = "closed",
                                  ![g][i].err = why]
    /\ queue' = queue \o <<Event("error", g, i, 0), Event("finished", g, i, 0)>>

\* the with block is left (break or end of the stream) and run() returns
Return(g, i) ==
    /\ workers' = [workers EXCEPT ![g][i].pc = "done", ![g][i].fd = "closed"]
    /\ queue' = Append(queue, Event("finished", g, i, 0))

\* requests.get(..., stream=True, timeout=30); raise_for_status()
w_request(g, i) ==
    /\ workers[g][i].pc = "req"
    /\ \/ /\ workers' = [workers EXCEPT ![g][i].pc = "open"]
          /\ UNCHANGED queue
       \/ Raise(g, i, "connect")
    /\ UNCHANGED <<current_downloads, nextGen, dl, temp_dir, chunk_file, dest_file,
                   notes, merge_log, cvars, xvars, rvars, vvars, svars>>

\* with open(chunk_path, 'wb') as f: creates or truncates the file; raises when the
\* directory is gone
w_open(g, i) ==
    /\ workers[g][i].pc = "open"
    /\ IF temp_dir
       THEN /\ chunk_file' = [chunk_file EXCEPT ![i] = File(<<>>)]
            /\ workers' = [workers EXCEPT ![g][i].pc = "recv", ![g][i].fd = "live"]
            /\ UNCHANGED queue
       ELSE /\ Raise(g, i, "open")
            /\ UNCHANGED chunk_file
    /\ UNCHANGED <<current_downloads, nextGen, dl, temp_dir, dest_file, notes,
                   merge_log, cvars, xvars, rvars, vvars, svars>>

\* for data in response.iter_content(chunk_size=8192): if self.is_canceled: break
\* The next buffer arrives (one byte of Content stands for a buffer) and the flag is
\* read; or the stream ends; or the stream raises.
w_recv(g, i) ==
    /\ workers[g][i].pc = "recv"
    /\ \/ /\ workers[g][i].pos < ChunkLen(i, dl[g].total_size, thread_count)
          /\ IF FlagSeen(dl[g].is_canceled)
             THEN Return(g, i)
             ELSE /\ workers' = [workers EXCEPT
                        ![g][i].pc = "write",
                        ![g][i].buf = RangeBytes(i, dl[g].total_size,
                                                 thread_count)[workers[g][i].pos + 1]]
                  /\ UNCHANGED queue
       \/ /\ workers[g][i].pos >= ChunkLen(i, dl[g].total_size, thread_count)
          /\ Return(g, i)
       \/ Raise(g, i, "stream")
    /\ UNCHANGED <<current_downloads, nextGen, dl, temp_dir, chunk_file, dest_file,
                   notes, merge_log, cvars, xvars, rvars, vvars, svars>>

\* f.write(data); downloaded += len(data). A handle on an unlinked file writes to
\* nothing that a path names.
w_write(g, i) ==
    /\ workers[g][i].pc = "write"
    /\ chunk_file' = IF workers[g][i].fd = "live"
                     THEN [chunk_file EXCEPT ![i].data =
                              WriteAt(@, workers[g][i].pos, workers[g][i].buf)]
                     ELSE chunk_file
    /\ workers' = [workers EXCEPT ![g][i].pc = "lock", ![g][i].pos = @ + 1]
    /\ UNCHANGED <<current_downloads, nextGen, dl, temp_dir, dest_file, queue, notes,
                   merge_log, cvars, xvars, rvars, vvars, svars>>

\* self.mutex.lock()
w_lock(g, i) ==
    /\ workers[g][i].pc = "lock"
    /\ MutexFree(dl[g].mutex)
    /\ dl' = [dl EXCEPT ![g].mutex = i]
    /\ workers' = [workers EXCEPT ![g][i].pc = "count"]
    /\ UNCHANGED <<current_downloads, nextGen, temp_dir, chunk_file, dest_file, queue,
                   notes, merge_log, cvars, xvars, rvars, vvars, svars>>

\* self.downloaded_size += len(data), first half: the attribute is read
w_count(g, i) ==
    /\ workers[g][i].pc = "count"
    /\ workers' = [workers EXCEPT ![g][i].pc = "store", ![g][i].reg = dl[g].downloaded_size]
    /\ UNCHANGED <<current_downloads, nextGen, dl, temp_dir, chunk_file, dest_file,
                   queue, notes, merge_log, cvars, xvars, rvars, vvars, svars>>

\* second half: the sum is stored; self.progress_signal.emit(self.downloaded_size,
\* self.total_size); self.mutex.unlock()
w_store(g, i) ==
    /\ workers[g][i].pc = "store"
    /\ dl' = [dl EXCEPT ![g].downloaded_size = workers[g][i].reg + 1, ![g].mutex = -1]
    /\ queue' = Append(queue, Event("progress", g, i, workers[g][i].reg + 1))
    /\ workers' = [workers EXCEPT ![g][i].pc = "recv", ![g][i].reg = 0]
    /\ UNCHANGED <<current_downloads, nextGen, temp_dir, chunk_file, dest_file, notes,
                   merge_log, cvars, xvars, rvars, vvars, svars>>

\* a terminate() takes effect: the thread dies where it stands; what it held (file
\* handle, mutex) is not released; finished is still signalled
w_killed(g, i) ==
    /\ workers[g][i].term
    /\ Alive(g, i)
    /\ workers' = [workers EXCEPT ![g][i].pc = "done"]
    /\ queue' = Append(queue, Event("finished", g, i, 0))
    /\ UNCHANGED <<current_downloads, nextGen, dl, temp_dir, chunk_file, dest_file,
                   notes, merge_log, cvars, xvars, rvars, vvars, svars>>

InitChunked == InitRangesIdle /\ InitOneTask /\ InitDownloads /\ InitVersions
                /\ InitExtractIdle

WorkerStep ==
    \E g \in Gens, i \in Chunks :
        \/ w_request(g, i)
        \/ w_open(g, i)
        \/ w_recv(g, i)
        \/ w_write(g, i)
        \/ w_lock(g, i)
        \/ w_count(g, i)
        \/ w_store(g, i)
        \/ w_killed(g, i)

\* one chunked task, from download_blender to its end, with cancel_download
NextChunked ==
    \/ download_blender(1)
    \/ cancel_download
    \/ Deliver
    \/ WorkerStep

SpecChunked == InitChunked /\ [][NextChunked]_vars

\* the id is started again while its task is active: one chunk of one buffer each
InitRestart ==
    /\ InitRangesIdle
    /\ thread_count = 1
    /\ remote_size = 1
    /\ InitDownloads
    /\ InitExtractIdle
    /\ InitVersions

NextRestart ==
    \/ download_blender(MaxGen)
    \/ cancel_download
    \/ Deliver
    \/ WorkerStep

SpecRestart == InitRestart /\ [][NextRestart]_vars

\* ------------------------------------------------------------ SpecSingle: DownloadWorker
\* DownloadManager.download_blender for a descriptor that takes the single-stream
\* branch (use_multi_thread off, or a url that is no .zip), the id not registered:
\* constructs the DownloadWorker, registers it and starts the thread
single_download_blender ==
    /\ nextGen = 1
    /\ current_downloads = 0
    /\ single' = [single EXCEPT !.pc = "req"]
    /\ current_downloads' = 1
    /\ nextGen' = 2
    /\ UNCHANGED <<dl, workers, temp_dir, chunk_file, dest_file, queue, notes, merge_log,
                   part_file, cancel_log, cvars, xvars, rvars, vvars>>

\* os.remove(temp_path) called while the file at the path may be open in the worker:
\* the file is unlinked, or, where the platform refuses to delete an open file
\* (Windows, the launcher's platform), PermissionError is raised
RemoveOutcomes(fd) == IF fd = "live" THEN {"removed", "raised"} ELSE {"removed"}

\* self.current_downloads.pop(download_id, None) is reached only when nothing before
\* it raised
Pops(outcome) == outcome = "removed"

\* DownloadManager.cancel_download(id) on a single-stream task: the worker has a
\* cancel method, which only sets its flag; then <save_path>.part is removed if it
\* exists, the record is popped and True returned. With the id not registered it
\* returns False.
single_cancel_download ==
    /\ IF current_downloads # 0
       THEN \E outcome \in (IF part_file.exists THEN RemoveOutcomes(single.fd)
                            ELSE {"removed"}) :
              /\ single' = [single EXCEPT
                               !.is_canceled = TRUE,
                               !.fd = IF outcome = "removed" /\ part_file.exists /\ @ = "live"
                                      THEN "stale" ELSE @]
              /\ part_file' = IF outcome = "removed" THEN NoFile ELSE part_file
              /\ current_downloads' = IF Pops(outcome) THEN 0 ELSE current_downloads
              /\ notes' = IF Pops(outcome)
                          THEN [notes EXCEPT ![current_downloads].cancelled = @ + 1]
                          ELSE notes
              /\ cancel_log' = [called |-> TRUE, had |-> TRUE,
                                result |-> IF Pops(outcome) THEN "true" ELSE "raised",
                                has |-> ~Pops(outcome)]
       ELSE /\ cancel_log' = [called |-> TRUE, had |-> FALSE, result |-> "false",
                              has |-> FALSE]
            /\ UNCHANGED <<single, part_file, current_downloads, notes>>
    /\ UNCHANGED <<nextGen, dl, workers, temp_dir, chunk_file, dest_file, queue,
                   merge_log, cvars, xvars, rvars, vvars>>

\* the event loop of the main thread takes the next queued signal of the worker: the
\* lambdas download_blender connected (progress, error) or _on_download_finished
single_Deliver ==
    /\ queue # <<>>
    /\ queue' = Tail(queue)
    /\ LET e == Head(queue)
       IN  CASE e.type = "progress" ->
                  /\ notes' = [notes EXCEPT ![e.g].progress = @ + 1, ![e.g].last = e.cur]
                  /\ UNCHANGED current_downloads
             [] e.type = "error" ->
                  /\ notes' = [notes EXCEPT ![e.g].failed = @ + 1]
                  /\ UNCHANGED current_downloads
             [] OTHER ->
                  IF current_downloads = 0
                  THEN UNCHANGED <<notes, current_downloads>>
                  ELSE /\ notes' = [notes EXCEPT ![e.g].completed = @ + 1]
                       /\ current_downloads' = 0
    /\ UNCHANGED <<nextGen, dl, workers, temp_dir, chunk_file, dest_file, merge_log,
                   svars, cvars, xvars, rvars, vvars>>

\* run() returns; settled_canceled keeps whether a cancel had come by the time the
\* transfer was settled (renamed, or given up)
Ended(w) == [w EXCEPT !.pc = "done", !.settled_canceled = w.is_canceled]

\* an exception inside the try block: the with block, if entered, closes the file
Throw(w, why) == [w EXCEPT !.pc = "except", !.fd = "closed", !.err = why]

\* requests.get(..., stream=True, timeout=30); raise_for_status()
sw_request ==
    /\ single.pc = "req"
    /\ \/ single' = [single EXCEPT !.pc = "open"]
       \/ single' = Throw(single, "connect")
    /\ UNCHANGED <<part_file, cancel_log, dvars, cvars, xvars, rvars, vvars>>

\* with open(temp_path, 'wb') as f
sw_open ==
    /\ single.pc = "open"
    /\ part_file' = File(<<>>)
    /\ single' = [single EXCEPT !.pc = "recv", !.fd = "live"]
    /\ UNCHANGED <<cancel_log, dvars, cvars, xvars, rvars, vvars>>

\* for chunk in response.iter_content(chunk_size=8192): if self.is_canceled: break
sw_recv ==
    /\ single.pc = "recv"
    /\ \/ /\ single.pos < remote_size
          /\ single' = IF FlagSeen(single.is_canceled)
                       THEN [single EXCEPT !.pc = "check", !.fd = "closed"]
                       ELSE [single EXCEPT !.pc = "write", !.buf = Content[single.pos + 1]]
       \/ /\ single.pos >= remote_size
          /\ single' = [single EXCEPT !.pc = "check", !.fd = "closed"]
       \/ single' = Throw(single, "stream")
    /\ UNCHANGED <<part_file, cancel_log, dvars, cvars, xvars, rvars, vvars>>

\* f.write(chunk); downloaded += len(chunk); self.progress_signal.emit(...)
sw_write ==
    /\ single.pc = "write"
    /\ part_file' = IF single.fd = "live"
                    THEN [part_file EXCEPT !.data = WriteAt(@, single.pos, single.buf)]
                    ELSE part_file
    /\ single' = [single EXCEPT !.pc = "recv", !.pos = @ + 1]
    /\ queue' = Append(queue, Event("progress", nextGen - 1, 0, single.pos + 1))
    /\ UNCHANGED <<current_downloads, nextGen, dl, workers, temp_dir, chunk_file,
                   dest_file, notes, merge_log, cancel_log, cvars, xvars, rvars, vvars>>

\* the flag were not read again after the loop
CanceledAfterLoopNever(w) == FALSE

\* if self.is_canceled (after the with block)
CanceledAfterLoop(w) == w.is_canceled

\* if self.is_canceled: if os.path.exists(temp_path): ... return
sw_check ==
    /\ single.pc = "check"
    /\ single' = IF CanceledAfterLoop(single)
                 THEN IF part_file.exists THEN [single EXCEPT !.pc = "c_remove"]
                      ELSE Ended(single)
                 ELSE [single EXCEPT !.pc = "rm_dest"]
    /\ UNCHANGED <<part_file, cancel_log, dvars, cvars, xvars, rvars, vvars>>

\* os.remove(temp_path) of the cancel branch, inside the try block
sw_c_remove ==
    /\ single.pc = "c_remove"
    /\ IF part_file.exists
       THEN /\ part_file' = NoFile
            /\ single' = Ended(single)
       ELSE /\ single' = Throw(single, "remove")
            /\ UNCHANGED part_file
    /\ UNCHANGED <<cancel_log, dvars, cvars, xvars, rvars, vvars>>

\* if os.path.exists(self.save_path): os.remove(self.save_path)
sw_rm_dest ==
    /\ single.pc = "rm_dest"
    /\ dest_file' = NoFile
    /\ single' = [single EXCEPT !.pc = "rename"]
    /\ UNCHANGED <<current_downloads, nextGen, dl, workers, temp_dir, chunk_file,
                   queue, notes, merge_log, part_file, cancel_log, cvars, xvars, rvars, vvars>>

\* os.rename(temp_path, self.save_path)
sw_rename ==
    /\ single.pc = "rename"
    /\ IF part_file.exists
       THEN /\ dest_file' = File(part_file.data)
            /\ part_file' = NoFile
            /\ single' = [single EXCEPT !.pc = "emit", !.settled_canceled = single.is_canceled]
       ELSE /\ single' = Throw(single, "rename")
            /\ UNCHANGED <<dest_file, part_file>>
    /\ UNCHANGED <<current_downloads, nextGen, dl, workers, temp_dir, chunk_file,
                   queue, notes, merge_log, cancel_log, cvars, xvars, rvars, vvars>>

\* self.finished_signal.emit(...), and run() returns
sw_emit ==
    /\ single.pc = "emit"
    /\ queue' = Append(queue, Event("finished", nextGen - 1, 0, 0))
    /\ single' = [single EXCEPT !.pc = "done"]
    /\ UNCHANGED <<current_downloads, nextGen, dl, workers, temp_dir, chunk_file,
                   dest_file, notes, merge_log, part_file, cancel_log, cvars, xvars, rvars,
                   vvars>>

\* except Exception as e: self.error_signal.emit(...); if os.path.exists(....part)
sw_except ==
    /\ single.pc = "except"
    /\ queue' = Append(queue, Event("error", nextGen - 1, 0, 0))
    /\ single' = IF part_file.exists THEN [single EXCEPT !.pc = "x_remove"]
                 ELSE Ended(single)
    /\ UNCHANGED <<current_downloads, nextGen, dl, workers, temp_dir, chunk_file,
                   dest_file, notes, merge_log, part_file, cancel_log, cvars, xvars, rvars,
                   vvars>>

\* os.remove(f"{self.save_path}.part") of the except branch (were the file gone by
\* now, the remove would raise out of run(): no file is left either way)
sw_x_remove ==
    /\ single.pc = "x_remove"
    /\ part_file' = NoFile
    /\ single' = Ended(single)
    /\ UNCHANGED <<cancel_log, dvars, cvars, xvars, rvars, vvars>>

InitSingle == InitRangesIdle /\ InitOneTask /\ InitDownloads /\ InitVersions
                /\ InitExtractIdle

SingleWorkerStep ==
    \/ sw_request
    \/ sw_open
    \/ sw_recv
    \/ sw_write
    \/ sw_check
    \/ sw_c_remove
    \/ sw_rm_dest
    \/ sw_rename
    \/ sw_emit
    \/ sw_except
    \/ sw_x_remove

\* one single-stream task, from download_blender to its end, with cancel_download
NextSingle ==
    \/ single_download_blender
    \/ single_cancel_download
    \/ single_Deliver
    \/ SingleWorkerStep

SpecSingle == InitSingle /\ [][NextSingle]_vars

\* ------------------------------------------------------------ SpecOverwrite
\* what an earlier download of the same file name left at <save_path>
OldArchive == <<0, 0>>

\* before the task is started, the destination of an earlier download is in the
\* download directory
earlier_download ==
    /\ nextGen = 1
    /\ ~dest_file.exists
    /\ dest_file' = File(OldArchive)
    /\ UNCHANGED <<current_downloads, nextGen, dl, workers, temp_dir, chunk_file, queue,
                   notes, merge_log, cvars, xvars, rvars, vvars, svars>>

InitOverwrite == InitSingle

\* one single-stream task started over an existing destination file
NextOverwrite ==
    \/ earlier_download
    \/ (dest_file.exists /\ single_download_blender)
    \/ single_cancel_download
    \/ single_Deliver
    \/ SingleWorkerStep

SpecOverwrite == InitOverwrite /\ [][NextOverwrite]_vars

\* ------------------------------------------------------------ SpecSingleRestart
\* DownloadManager.download_blender for the single-stream branch with the id still
\* registered, called once the thread of the previous DownloadWorker has ended
\* (signals of that worker may still be queued for the main thread): the previous
\* task is cancelled through cancel_download, whose result is dropped (no .part
\* file exists by then), and a new worker is constructed, registered under the same
\* id and started
single_download_blender_again ==
    /\ nextGen > 1
    /\ nextGen <= MaxGen
    /\ current_downloads # 0
    /\ single.pc = "done"
    /\ ~part_file.exists
    /\ single' = [pc |-> "req", is_canceled |-> FALSE, pos |-> 0, buf |-> 0,
                  fd |-> "closed", err |-> "none", settled_canceled |-> FALSE]
    /\ current_downloads' = nextGen
    /\ nextGen' = nextGen + 1
    /\ cancel_log' = [called |-> TRUE, had |-> TRUE, result |-> "true", has |-> FALSE]
    /\ UNCHANGED <<dl, workers, temp_dir, chunk_file, dest_file, queue, notes, merge_log,
                   part_file, cvars, xvars, rvars, vvars>>

InitSingleRestart == InitSingle

NextSingleRestart ==
    \/ single_download_blender
    \/ single_download_blender_again
    \/ single_cancel_download
    \/ single_Deliver
    \/ SingleWorkerStep

SpecSingleRestart == InitSingleRestart /\ [][NextSingleRestart]_vars

\* ------------------------------------------------------------ SpecTask: a task of either kind
\* download_blender takes the chunked branch or the single-stream branch (lines
\* 1173-1238); what runs afterwards belongs to the downloader it constructed
InitTask == InitSingle

NextTask ==
    \/ download_blender(1)
    \/ single_download_blender
    \/ (single.pc = "none" /\ (cancel_download \/ Deliver))
    \/ (single.pc # "none" /\ (single_cancel_download \/ single_Deliver))
    \/ WorkerStep
    \/ SingleWorkerStep

SpecTask == InitTask /\ [][NextTask]_vars

\* C24: each worker, chunk worker and single-stream worker, reads the cancellation
\* flag before it writes a received buffer: a buffer is taken for writing only by a
\* step that read the flag clear, and only a buffer so taken is written and counted,
\* so once the flag is set a worker writes at most the one buffer it already held.
C24_FlagReadBeforeEveryWrite ==
    [][/\ \A g \in Gens : \A i \in Chunks :
             /\ (workers'[g][i].pc = "write" /\ workers[g][i].pc # "write")
                   => (workers[g][i].pc = "recv" /\ ~dl[g].is_canceled)
             /\ workers'[g][i].pos # workers[g][i].pos => workers[g][i].pc = "write"
             /\ dl'[g].downloaded_size # dl[g].downloaded_size
                   => \E j \in Chunks : workers[g][j].pc = "store"
             /\ workers[g][i].pc \in {"write", "lock", "count", "store"}
                   => workers'[g][i].pc \in {"write", "lock", "count", "store", "recv", "done"}
       /\ (single'.pc = "write" /\ single.pc # "write")
             => (single.pc = "recv" /\ ~single.is_canceled)
       /\ single'.pos # single.pos => single.pc = "write"]_vars

\* the flag was set while a worker, chunk worker or single-stream worker, was in its
\* loop, and the worker has left the loop with more of its range to come
C24_Witness ==
    \/ \E g \in Gens : \E i \in Chunks :
          /\ dl[g].is_canceled
          /\ workers[g][i].pc = "done"
          /\ workers[g][i].err = "none"
          /\ workers[g][i].fd = "closed"
          /\ workers[g][i].pos >= 1
          /\ workers[g][i].pos < ChunkLen(i, dl[g].total_size, thread_count)
    \/ /\ single.is_canceled
       /\ single.pc = "done"
       /\ single.err = "none"
       /\ single.pos >= 1
       /\ single.pos < remote_size

\* ------------------------------------------------------------ claims on single-stream tasks
\* the transfer ran through to the rename without an exception and without a cancel
Succeeded == single.err = "none" /\ ~single.settled_canceled

C16_CancelReturnsRegistered ==
    cancel_log.called =>
        /\ (cancel_log.result = "true") <=> cancel_log.had
        /\ (cancel_log.result = "false") <=> ~cancel_log.had
        /\ cancel_log.result = "true" => ~cancel_log.has

\* C30: a cancel_download that comes at any point of a single-stream worker's run
\* before its finished notification (between the last cancel check and the rename
\* included) ends with no .part file and with no destination file: once the worker
\* has returned and the event loop is idle, a task whose flag was set has neither.
C30_SingleCancelLeavesNothing ==
    (single.is_canceled /\ single.pc = "done" /\ queue = <<>>)
        => (~part_file.exists /\ ~dest_file.exists)

\* C38: a destination file that existed before a single-stream download started is
\* never lost without replacement: in every outcome (success, error, cancel at any
\* point), once the worker has returned, the destination path holds the old file or
\* the completely downloaded new one.
C38_OldFileKeptOrReplaced ==
    (nextGen > 1 /\ single.pc = "done") =>
        /\ dest_file.exists
        /\ dest_file.data \in {OldArchive, SubSeq(Content, 1, remote_size)}

\* ------------------------------------------------------------ claims on chunked tasks
Started(g) == g < nextGen

\* nothing of task g is left to run: its threads have ended and the event loop holds
\* no signal of it
TaskCeased(g) ==
    /\ Started(g)
    /\ \A i \in Chunks : ~Alive(g, i)
    /\ \A k \in 1..Len(queue) : queue[k].g # g

\* the chunk files of 0..n-1 one after the other
RECURSIVE InIndexOrder(_, _)
InIndexOrder(files, n) ==
    IF n = 0 THEN <<>> ELSE InIndexOrder(files, n - 1) \o files[n - 1].data

\* C2: when the merge of a task succeeds, the destination file is the concatenation
\* of the chunk files in index order 0..N-1 whatever the order in which the workers
\* finished, and when every chunk file holds exactly the bytes of its range it is
\* the content of the URL.
C2_MergeInIndexOrder ==
    \A g \in Gens :
        (merge_log[g].ran /\ merge_log[g].ok) =>
            /\ dest_file.exists
            /\ dest_file.data = InIndexOrder(merge_log[g].parts, thread_count)
            /\ (\A i \in 0..(thread_count - 1) :
                    merge_log[g].parts[i].data = RangeBytes(i, dl[g].total_size, thread_count))
               => dest_file.data = SubSeq(Content, 1, dl[g].total_size)

\* the last chunk finished first, every chunk was fetched in full, and the merged
\* file is the content
C2_Witness ==
    \E g \in Gens :
        /\ merge_log[g].ran /\ merge_log[g].ok
        /\ merge_log[g].order[1] = thread_count - 1
        /\ thread_count > 1
        /\ \A i \in 0..(thread_count - 1) :
              merge_log[g].parts[i].data = RangeBytes(i, dl[g].total_size, thread_count)
        /\ dest_file.data = SubSeq(Content, 1, dl[g].total_size)

\* the request of exactly one worker of g raised, at connect or in the stream, and
\* every other worker read its stream to the end
OneWorkerFailed(g) ==
    \E i \in 0..(thread_count - 1) :
        /\ workers[g][i].err \in {"connect", "stream"}
        /\ \A j \in 0..(thread_count - 1) :
              j # i => /\ workers[g][j].err = "none"
                       /\ workers[g][j].pc = "done"
                       /\ workers[g][j].pos = ChunkLen(j, dl[g].total_size, thread_count)

\* C3: if the request of one chunk worker errors while all others succeed, the task
\* ends Failed: a failure notification is emitted, no completed notification is
\* emitted, no destination file exists and the temporary directory is removed.
C3_WorkerFailureFailsTask ==
    \A g \in Gens :
        (OneWorkerFailed(g) /\ ~dl[g].is_canceled) =>
            /\ notes[g].completed = 0
            /\ TaskCeased(g) =>
                  /\ notes[g].failed > 0
                  /\ ~dest_file.exists
                  /\ ~temp_dir

\* C4: after a cancel of a chunked task that had not reached its merge, once all
\* activity of the task has ceased, neither the destination file nor the temporary
\* directory exists.
C4_CancelLeavesNothing ==
    \A g \in Gens :
        (dl[g].is_canceled /\ ~merge_log[g].ran /\ TaskCeased(g))
            => (~dest_file.exists /\ ~temp_dir)

\* C13: the merge of a task starts only after every one of its chunk workers has
\* signalled completion: whenever the destination file has been written by the merge
\* of task g, no worker of g is running and each of them has reported.
C13_MergeAfterAllWorkers ==
    \A g \in Gens :
        merge_log[g].ran =>
            \A i \in 0..(thread_count - 1) :
                /\ workers[g][i].pc = "done"
                /\ \E k \in 1..Len(merge_log[g].order) : merge_log[g].order[k] = i

\* two workers reported, in the order of their indices, and the merge ran
C13_Witness ==
    \E g \in Gens :
        /\ merge_log[g].ran
        /\ thread_count > 1
        /\ merge_log[g].order[1] = 0
        /\ Len(merge_log[g].order) = thread_count

\* C14: whenever a chunked task emits its completed notification, the destination
\* file exists and the temporary directory with its chunk files has been removed.
C14_CompletedIsClean ==
    \A g \in Gens :
        notes[g].completed > 0 => (dest_file.exists /\ ~merge_log[g].left)

\* C19: once a task has reached a terminal state (completed, failed or cancelled)
\* its id is no longer held in current_downloads: a task that reported a failure and
\* of which nothing is left to run is not registered as active.
C19_TerminalNotRegistered ==
    \A g \in Gens :
        (TaskCeased(g) /\ notes[g].completed + notes[g].failed + notes[g].cancelled > 0)
            => current_downloads # g

\* C20: if the probing request of a chunked task yields no content length or a
\* length <= 0, the task fails with an error notification, no chunk worker is
\* created and no ranged GET is issued.
C20_NoSizeFails ==
    \A g \in Gens :
        dl[g].head \in {"nosize", "negative"} =>
            /\ notes[g].failed > 0
            /\ notes[g].completed = 0
            /\ \A i \in Chunks : workers[g][i].pc = "none"

C20_Witness ==
    \E g \in Gens :
        /\ dl[g].head = "negative"
        /\ dl[g].total_size = -1
        /\ notes[g].failed = 1
        /\ \A i \in Chunks : workers[g][i].pc = "none"

\* C22: when the request of a chunk worker errors or times out, the cancellation
\* flag of the task is raised, so that the other workers stop at their next buffer,
\* and the task never enters the merge afterwards.
C22_WorkerErrorCancelsTask ==
    \A g \in Gens : \A i \in Chunks :
        workers[g][i].err \in {"connect", "stream"} =>
            (dl[g].is_canceled /\ ~merge_log[g].ran)

\* C23: completed and failed are terminal for a task: once a task that nobody
\* cancelled has reported one of them, nothing more is reported for it, neither
\* progress nor a second failed nor completed after failed.
C23_TerminalIsLast ==
    [][\A g \in Gens :
          (notes[g].completed + notes[g].failed > 0 /\ ~dl'[g].is_canceled)
              => notes'[g] = notes[g]]_vars

\* the bytes the workers of g have written
RECURSIVE BytesWritten(_, _)
BytesWritten(g, n) == IF n = 0 THEN 0 ELSE BytesWritten(g, n - 1) + workers[g][n - 1].pos

\* C25: under every interleaving of the chunk workers no increment of the shared
\* counter is lost: whenever no worker of a task (that nobody cancelled) stands
\* between the write of a buffer and the end of its critical section, the counter
\* equals the sum of the bytes the workers have written, and every progress
\* notification in the event loop carries a value the counter has had, each once.
C25_NoLostIncrement ==
    \A g \in Gens :
        ~dl[g].is_canceled =>
            /\ (\A i \in Chunks : workers[g][i].pc \notin {"lock", "count", "store"})
                  => dl[g].downloaded_size = BytesWritten(g, thread_count)
            /\ \A k \in 1..Len(queue) :
                  (queue[k].g = g /\ queue[k].type = "progress") =>
                      /\ queue[k].cur <= dl[g].downloaded_size
                      /\ \A j \in 1..(k - 1) :
                            (queue[j].g = g /\ queue[j].type = "progress")
                                => queue[j].cur # queue[k].cur

\* both workers have written and counted all their buffers
C25_Witness ==
    \E g \in Gens :
        /\ ~dl[g].is_canceled
        /\ thread_count > 1
        /\ \A i \in 0..(thread_count - 1) :
              /\ workers[g][i].pc = "done"
              /\ workers[g][i].pos = ChunkLen(i, dl[g].total_size, thread_count)
        /\ dl[g].downloaded_size = dl[g].total_size

\* C26: the downloaded value of the progress notifications emitted for a task
\* never decreases, whatever the interleaving of its workers.
C26_ProgressNeverDecreases ==
    [][\A g \in Gens : notes'[g].last >= notes[g].last]_vars

\* three progress notifications of a task of two workers reached the caller, the
\* last with the size of the archive
C26_Witness ==
    \E g \in Gens :
        /\ thread_count > 1
        /\ notes[g].progress = 3
        /\ notes[g].last = dl[g].total_size

\* C35: whenever a chunked task has emitted its completed notification, the shared
\* downloaded-byte counter equals the total size and every chunk file that was
\* merged held exactly the number of bytes of its range (a request that succeeds
\* delivers exactly the bytes of its range: RangeBytes).
C35_CompletedIsWhole ==
    \A g \in Gens :
        notes[g].completed > 0 =>
            /\ dl[g].downloaded_size = dl[g].total_size
            /\ \A i \in 0..(thread_count - 1) :
                  Len(merge_log[g].parts[i].data) = ChunkLen(i, dl[g].total_size, thread_count)

\* C27: every way a chunked task can fail (probing request error, content length
\* missing or <= 0, worker error, merge error) leaves <destination>.chunks removed
\* once the task has ended (stated for tasks that nobody cancelled).
C27_FailureRemovesTempDir ==
    \A g \in Gens :
        (/\ TaskCeased(g)
         /\ ~dl[g].is_canceled
         /\ notes[g].failed > 0
         /\ notes[g].completed = 0)
            => ~temp_dir

\* C28: if an I/O error occurs while the merge is concatenating chunks (a chunk
\* file that is missing or unreadable included), the task reports a failure and the
\* destination file, if it was already partly written, is removed.
C28_MergeFailureRemovesDest ==
    \A g \in Gens :
        (merge_log[g].ran /\ ~merge_log[g].ok) =>
            /\ notes[g].failed > 0
            /\ merge_log[g].out # <<>> => ~dest_file.exists

\* C29: on cancel of a chunked task the temporary files and directory are removed
\* only after every chunk worker has exited: when cancel has run its cleanup no
\* worker of the task is still alive, and afterwards no worker of the task writes to
\* a chunk file or creates one.
C29_CleanupAfterWorkersExit ==
    [][\A g \in Gens :
        /\ (~dl[g].is_canceled /\ dl'[g].is_canceled)
              => \A i \in Chunks : workers'[g][i].pc \in {"none", "done"}
        /\ dl[g].is_canceled
              => \A i \in Chunks :
                    /\ workers'[g][i].pos # workers[g][i].pos => workers[g][i].fd # "live"
                    /\ workers'[g][i].fd = "live" => workers[g][i].fd = "live"]_vars

\* the caller was told how task g ended
Notified(g) == notes[g].completed + notes[g].failed + notes[g].cancelled > 0

\* C5: every task for which download_blender returned an id gets a terminal
\* notification (completed, failed or cancelled): once nothing of the task is left
\* to run, and so nothing can notify any more, the caller has been told.
C5_TerminalNotification ==
    \A g \in Gens : TaskCeased(g) => Notified(g)

\* a worker of downloader g is connected and moving bytes of the archive
Transferring(g) ==
    \E i \in Chunks : workers[g][i].pc \in {"recv", "write", "lock", "count", "store"}

\* C6: two downloaders of the id never transfer at the same time.
C6_OneDownloaderRuns ==
    \A g, h \in Gens : (g # h /\ Transferring(g)) => ~Transferring(h)


\* ------------------------------------------------------------ SpecResolver: version strings
\* a version string is the sequence of its characters
Digits == <<"0", "1", "2", "3", "4", "5", "6", "7", "8", "9">>

\* the version strings the sites list: what r'(\d+\.\d+\.\d+)' matched in an href or
\* in a button text
Versions ==
    { <<"3", ".", "6", ".", "0">>,
      <<"4", ".", "9", ".", "0">>,
      <<"4", ".", "1", "0", ".", "0">> }

\* str.split('.')
RECURSIVE SplitFrom(_, _)
SplitFrom(s, cur) ==
    IF s = <<>> THEN <<cur>>
    ELSE IF Head(s) = "." THEN <<cur>> \o SplitFrom(Tail(s), <<>>)
    ELSE SplitFrom(Tail(s), Append(cur, Head(s)))

Split(s) == SplitFrom(s, <<>>)

\* n.isdigit()
IsDigit(n) == n # <<>> /\ \A k \in 1..Len(n) : \E d \in 1..Len(Digits) : Digits[d] = n[k]

\* int(n) for a string of decimal digits
RECURSIVE ToInt(_)
ToInt(n) ==
    IF n = <<>> THEN 0
    ELSE ToInt(SubSeq(n, 1, Len(n) - 1)) * Len(Digits)
         + ((CHOOSE d \in 1..Len(Digits) : Digits[d] = n[Len(n)]) - 1)

\* key=lambda v: [int(n) if n.isdigit() else 0 for n in v.version.split('.')]
VersionKey(v) ==
    LET parts == Split(v)
    IN  [k \in 1..Len(parts) |-> IF IsDigit(parts[k]) THEN ToInt(parts[k]) ELSE 0]

\* a < b for two Python lists of int
RECURSIVE ListLess(_, _)
ListLess(a, b) ==
    IF b = <<>> THEN FALSE
    ELSE IF a = <<>> THEN TRUE
    ELSE IF a[1] # b[1] THEN a[1] < b[1]
    ELSE ListLess(Tail(a), Tail(b))

\* s.startswith(prefix)
StartsWith(s, prefix) == Len(prefix) <= Len(s) /\ SubSeq(s, 1, Len(prefix)) = prefix

\* ------------------------------------------------------------ SpecResolver: cache and strategies
\* the assignment were to replace the dict by the one entry
DictSetReplacing(c, key, obj) == <<[key |-> key, obj |-> obj]>>

\* self.version_cache[key] = obj on the insertion-ordered dict
DictSet(c, key, obj) ==
    IF \E k \in 1..Len(c) : c[k].key = key
    THEN [k \in 1..Len(c) |-> IF c[k].key = key THEN [key |-> key, obj |-> obj] ELSE c[k]]
    ELSE Append(c, [key |-> key, obj |-> obj])

\* for version in objs: self.version_cache[version.version] = version
RECURSIVE DictSetAll(_, _, _)
DictSetAll(c, h, objs) ==
    IF objs = <<>> THEN c
    ELSE DictSetAll(DictSet(c, h[objs[1]].version, objs[1]), h, Tail(objs))

\* list(self.version_cache.values())
CacheValues(c) == [k \in 1..Len(c) |-> c[k].obj]

\* the lists of version strings a strategy can come back with when n descriptors
\* have been constructed; the empty list is also what a strategy returns when its
\* request or its parsing raised
Lists(n) ==
    LET room == IF MaxObj + 1 - n < MaxList THEN MaxObj + 1 - n ELSE MaxList
    IN  UNION {[1..k -> Versions] : k \in 0..room}

\* BlenderVersionInfo(version=..., url=...) for each listed version, appended to the
\* strategy's result; S = [heap, nextObj, cache, all, calls, results]
Construct(S, name, vs, kinds) ==
    LET n == Len(vs)
        objs == [k \in 1..n |-> S.nextObj + k - 1]
    IN  [S EXCEPT
            !.heap = [o \in 1..MaxObj |->
                        IF o >= S.nextObj /\ o < S.nextObj + n
                        THEN [version |-> vs[o - S.nextObj + 1],
                              url |-> kinds[o - S.nextObj + 1]]
                        ELSE S.heap[o]],
            !.nextObj = S.nextObj + n,
            !.all = S.all \o objs,
            !.calls = Append(S.calls, name),
            !.results = [S.results EXCEPT ![name] = objs]]

\* subversions.sort(key=..., reverse=True) and found_versions.sort(key=...,
\* reverse=True) on the version strings matched in a listing
RECURSIVE InsertListed(_, _)
InsertListed(x, s) ==
    IF s = <<>> THEN <<x>>
    ELSE IF ListLess(VersionKey(s[1]), VersionKey(x)) THEN <<x>> \o s
    ELSE <<s[1]>> \o InsertListed(x, Tail(s))

RECURSIVE SortListed(_, _)
SortListed(vs, acc) ==
    IF vs = <<>> THEN acc ELSE SortListed(Tail(vs), InsertListed(vs[1], acc))

\* _get_versions_from_direct_download: the listed files newest first, every
\* descriptor with the url of a .zip file and written to the cache as it is appended
\* to the result
get_versions_from_direct_download(S, vs) ==
    LET S1 == Construct(S, "direct", SortListed(vs, <<>>), [k \in 1..Len(vs) |-> "file"])
    IN  [S1 EXCEPT !.cache = DictSetAll(S.cache, S1.heap, S1.results.direct)]

\* _get_versions_from_mirror: the listed files newest first, every descriptor with
\* the url of a .zip file
get_versions_from_mirror(S, vs) ==
    Construct(S, "mirror", SortListed(vs, <<>>), [k \in 1..Len(vs) |-> "file"])

\* _get_versions_from_official: the url is what _get_windows_download_url found on
\* the download page, a file or a further page
get_versions_from_official(S, vs, kinds) == Construct(S, "official", vs, kinds)

\* the mirror consulted whenever it is configured
InvokeMirrorAlways(use, all) == use

\* if self.use_mirror and not all_versions
InvokeMirror(use, all) == use /\ all = <<>>

\* if not all_versions
InvokeOfficial(all) == all = <<>>

\* unique_versions = {}; for version in all_versions: if version.version not in
\* unique_versions: unique_versions[version.version] = version
RECURSIVE Dedup(_, _, _)
Dedup(h, all, acc) ==
    IF all = <<>> THEN acc
    ELSE Dedup(h, Tail(all),
               IF \E k \in 1..Len(acc) : h[acc[k]].version = h[all[1]].version
               THEN acc ELSE Append(acc, all[1]))

\* versions.sort(key=..., reverse=True): stable, equal keys keep their order
RECURSIVE InsertDescending(_, _, _)
InsertDescending(h, x, s) ==
    IF s = <<>> THEN <<x>>
    ELSE IF ListLess(VersionKey(h[s[1]].version), VersionKey(h[x].version))
         THEN <<x>> \o s
         ELSE <<s[1]>> \o InsertDescending(h, x, Tail(s))

RECURSIVE SortVersions(_, _, _)
SortVersions(h, s, acc) ==
    IF s = <<>> THEN acc ELSE SortVersions(h, Tail(s), InsertDescending(h, s[1], acc))

\* the list of the pass with no recourse to the cache
FallbackNone(versions, c) == versions

\* if not versions and self.version_cache: versions = list(self.version_cache.values())
Fallback(versions, c) == IF versions = <<>> /\ c # <<>> THEN CacheValues(c) ELSE versions

\* cache_data[version] = info.to_dict() for every entry; json.dump
Dump(c, h) == [k \in 1..Len(c) |-> [key |-> c[k].key, data |-> h[c[k].obj]]]

\* the handler were it to pass the exception on
ExceptBranchReraise(c) == [raised |-> TRUE, list |-> <<>>]

\* except Exception as e (lines 764-774): the cached descriptors if there are any,
\* else the empty list; nothing is raised to the caller
ExceptBranch(c) == [raised |-> FALSE, list |-> IF c # <<>> THEN CacheValues(c) ELSE <<>>]

\* the except clauses of a strategy were to let the error through to the pass
StrategyExceptReraise(name) == [raised |-> TRUE, list |-> <<>>]

\* except ConnectionError / Timeout / RequestException / Exception of a strategy:
\* the error is logged and the strategy returns []
StrategyExcept(name) == [raised |-> FALSE, list |-> <<>>]

\* DownloadManager.get_available_versions, one resolution pass. A strategy whose
\* request or parsing raises (ed, em, eo, drawn from Raises) ends in its except
\* clauses; otherwise it returns a list of Lists. save_version_cache catches its own
\* errors (saved). fault: an exception no statement of the try body expects, raised
\* once the strategies have returned; it takes the pass to the except branch with
\* the cache as the strategies left it and nothing saved.
resolution_pass(Raises) ==
    LET S0 == [heap |-> heap, nextObj |-> nextObj, cache |-> version_cache, all |-> <<>>,
               calls |-> <<>>,
               results |-> [direct |-> <<>>, mirror |-> <<>>, official |-> <<>>]]
    IN  \E ed \in Raises :
        \E vd \in (IF ed THEN {StrategyExcept("direct").list} ELSE Lists(S0.nextObj)) :
        \E S1 \in {get_versions_from_direct_download(S0, vd)} :
        \E td \in {ed /\ StrategyExcept("direct").raised} :
        \E callm \in {~td /\ InvokeMirror(use_mirror, S1.all)} :
        \E em \in (IF callm THEN Raises ELSE {FALSE}) :
        \E vm \in (IF callm /\ ~em THEN Lists(S1.nextObj)
                   ELSE {StrategyExcept("mirror").list}) :
        \E S2 \in {IF callm THEN get_versions_from_mirror(S1, vm) ELSE S1} :
        \E tm \in {td \/ (em /\ StrategyExcept("mirror").raised)} :
        \E callo \in {~tm /\ InvokeOfficial(S2.all)} :
        \E eo \in (IF callo THEN Raises ELSE {FALSE}) :
        \E vo \in (IF callo /\ ~eo THEN Lists(S2.nextObj)
                   ELSE {StrategyExcept("official").list}) :
        \E kinds \in [1..Len(vo) -> {"file", "page"}] :
        \E S3 \in {IF callo THEN get_versions_from_official(S2, vo, kinds) ELSE S2} :
        \E to \in {tm \/ (eo /\ StrategyExcept("official").raised)} :
        \E versions \in {SortVersions(S3.heap, Dedup(S3.heap, S3.all, <<>>), <<>>)} :
        \E fault \in (IF to THEN {TRUE} ELSE BOOLEAN) :
        \E c \in {IF fault THEN S3.cache ELSE DictSetAll(S3.cache, S3.heap, versions)} :
        \E out \in {IF fault THEN ExceptBranch(c)
                    ELSE [raised |-> FALSE, list |-> Fallback(versions, c)]} :
        \E saved \in (IF fault THEN {FALSE} ELSE BOOLEAN) :
            /\ heap' = S3.heap
            /\ nextObj' = S3.nextObj
            /\ version_cache' = c
            /\ cache_file' = IF saved THEN Dump(c, S3.heap) ELSE cache_file
            /\ pass' = [ran |-> TRUE, calls |-> S3.calls, results |-> S3.results,
                        all |-> S3.all,
                        fallback |-> (fault \/ (versions = <<>> /\ c # <<>>)),
                        fault |-> fault, raised |-> out.raised,
                        errors |-> {n \in {"direct", "mirror", "official"} :
                                       \/ (n = "direct" /\ ed)
                                       \/ (n = "mirror" /\ em)
                                       \/ (n = "official" /\ eo)},
                        returned |-> [k \in 1..Len(out.list) |->
                            [obj |-> out.list[k], version |-> S3.heap[out.list[k]].version]],
                        before |-> version_cache, after |-> c,
                        heap_before |-> heap, heap_after |-> S3.heap]
            /\ last_op' = [op |-> "pass",
                           write |-> IF fault THEN "none"
                                     ELSE IF saved THEN "ok" ELSE "failed"]
            /\ UNCHANGED <<use_mirror, requested, rvars, cvars, xvars, dvars, svars>>

\* a pass in which a strategy that could not fetch or parse its listing is not told
\* apart from one that found the listing empty: both return []
get_available_versions == resolution_pass({FALSE})

\* a pass in which it is recorded which strategies ended in their except clauses
get_available_versions_or_error == resolution_pass(BOOLEAN)

\* DownloadManager.load_versions_from_json (called by VersionLoaderThread.run): a
\* descriptor for every entry of the versions array of blender_versions.json, in
\* the order of the file, each written to the cache under its version as it is
\* appended; version_cache.json is not touched
load_versions_from_json ==
    \E vs \in Lists(nextObj) :
        LET n == Len(vs)
            objs == [k \in 1..n |-> nextObj + k - 1]
            h == [o \in 1..MaxObj |->
                    IF o >= nextObj /\ o < nextObj + n
                    THEN [version |-> vs[o - nextObj + 1], url |-> "file"]
                    ELSE heap[o]]
        IN  /\ heap' = h
            /\ nextObj' = nextObj + n
            /\ version_cache' = DictSetAll(version_cache, h, objs)
            /\ last_op' = [op |-> "json", write |-> "none"]
            /\ UNCHANGED <<cache_file, use_mirror, pass, requested, rvars, cvars, xvars, dvars,
                           svars>>

\* the exact version get_download_url settles on: windows_files sorted descending by
\* key, first entry
Newest(files) == CHOOSE e \in files : \A f \in files : ~ListLess(VersionKey(e), VersionKey(f))

\* DownloadManager.get_download_url(version_info) on descriptor o. listed: the exact
\* versions of the windows x64 .zip hrefs on the page at version_info.url (none when
\* the request raised)
get_download_url(o) ==
    /\ o < nextObj
    /\ IF heap[o].url = "file"
       THEN UNCHANGED heap
       ELSE \E listed \in SUBSET Versions :
               LET major_version == Split(heap[o].version)[1]
                   windows_files == {e \in listed : StartsWith(e, major_version)}
               IN  heap' = IF windows_files # {}
                           THEN [heap EXCEPT ![o].version = Newest(windows_files)]
                           ELSE heap
    /\ last_op' = [op |-> "url", write |-> "none"]
    /\ UNCHANGED <<nextObj, version_cache, cache_file, use_mirror, pass, requested, rvars,
                   cvars, xvars, dvars, svars>>

\* what get_download_url(version_info) returns and what it makes of the heap, when
\* the page at version_info.url lists the exact versions of listed
ResolveUrl(h, o, listed) ==
    IF h[o].url = "file" THEN [url |-> "file", heap |-> h]
    ELSE LET major_version == Split(h[o].version)[1]
             windows_files == {e \in listed : StartsWith(e, major_version)}
         IN  IF windows_files # {}
             THEN [url |-> "file", heap |-> [h EXCEPT ![o].version = Newest(windows_files)]]
             ELSE [url |-> "none", heap |-> h]

\* version_info.url = download_url
ResolvedUrlStored(h, o, url) == [h EXCEPT ![o].url = url]

\* DownloadManager.download_blender(version_info) on descriptor o, up to the id it
\* returns: the download url is the descriptor's own when that is a .zip or .msi,
\* else what get_download_url finds; without one download_error is emitted and
\* None returned
resolve_download(o) ==
    /\ o < nextObj
    /\ \E listed \in SUBSET Versions :
          LET found == ResolveUrl(heap, o, listed)
          IN  IF found.url = "none"
              THEN UNCHANGED <<heap, requested>>
              ELSE /\ heap' = ResolvedUrlStored(found.heap, o, found.url)
                   /\ requested' = requested \cup {o}
    /\ last_op' = [op |-> "download", write |-> "none"]
    /\ UNCHANGED <<nextObj, version_cache, cache_file, use_mirror, pass, rvars, cvars, xvars,
                   dvars, svars>>

InitResolver ==
    /\ InitRangesIdle
    /\ InitOneTask
    /\ InitDownloads
    /\ InitExtractIdle
    /\ heap = [o \in 1..MaxObj |-> [version |-> <<>>, url |-> "none"]]
    /\ nextObj = 1
    /\ version_cache = <<>>
    /\ cache_file = <<>>
    /\ use_mirror \in BOOLEAN
    /\ pass = [ran |-> FALSE, calls |-> <<>>,
               results |-> [direct |-> <<>>, mirror |-> <<>>, official |-> <<>>],
               all |-> <<>>, fallback |-> FALSE, fault |-> FALSE, raised |-> FALSE,
               errors |-> {}, returned |-> <<>>,
               before |-> <<>>, after |-> <<>>, heap_before |-> heap, heap_after |-> heap]
    /\ requested = {}
    /\ last_op = [op |-> "none", write |-> "none"]

NextResolver ==
    \/ get_available_versions
    \/ load_versions_from_json
    \/ \E o \in 1..MaxObj : get_download_url(o)

SpecResolver == InitResolver /\ [][NextResolver]_vars

\* passes whose strategies can raise, each on the cache the passes before it left
InitStrategies == InitResolver

NextStrategies == get_available_versions_or_error

SpecStrategies == InitStrategies /\ [][NextStrategies]_vars

\* descriptors from discovery to the start of their download
InitDescriptor == InitRangesIdle /\ InitOneTask /\ InitDownloads /\ InitExtractIdle
                   /\ InitVersions

NextDescriptor ==
    \/ get_available_versions
    \/ \E o \in 1..MaxObj : get_download_url(o)
    \/ \E o \in 1..MaxObj : resolve_download(o)

SpecDescriptor == InitDescriptor /\ [][NextDescriptor]_vars

\* ------------------------------------------------------------ claims on notifications
\* C33: after cancel_download(id) has returned true, and while no new task with the
\* id has been started, the manager emits no further progress, completed or failed
\* notification for the id, whatever the workers of the cancelled task still do.
C33_SilentAfterCancel ==
    [][\A g \in Gens :
        (notes[g].cancelled > 0 /\ nextGen = g + 1 /\ nextGen' = nextGen) =>
            /\ notes'[g].progress = notes[g].progress
            /\ notes'[g].completed = notes[g].completed
            /\ notes'[g].failed = notes[g].failed]_vars

\* C34: when a task id is restarted, a notification produced late by the cancelled
\* previous downloader never affects the new task: the record of the new task is
\* removed from current_downloads by a completion, and a completed notification is
\* emitted for the id, only when the new downloader itself finished.
C34_LateSignalSparesNewTask ==
    [][\A g, h \in Gens :
        (current_downloads = g /\ notes'[h].completed > notes[h].completed) => h = g]_vars

\* ------------------------------------------------------------ claims on version discovery
\* C7: the list a pass returns never holds two descriptors with the same version
\* string, and of the descriptors the strategies reported for a version the one
\* kept is the first in priority order (stated for the passes whose body ran
\* through without an exception).
C7_NoDuplicateVersions ==
    (pass.ran /\ ~pass.fault) =>
        /\ \A j, k \in 1..Len(pass.returned) :
              j # k => pass.returned[j].version # pass.returned[k].version
        /\ ~pass.fallback =>
              \A k \in 1..Len(pass.returned) :
                 \E a \in 1..Len(pass.all) :
                    /\ pass.all[a] = pass.returned[k].obj
                    /\ \A b \in 1..(a - 1) :
                          pass.heap_after[pass.all[b]].version # pass.returned[k].version

\* C8: when every strategy of a pass came back empty, the pass returns exactly the
\* descriptors of the version cache, one per key, and the cache after the pass is
\* the cache before it, entries and descriptors alike.
C8_AllFailReturnsCache ==
    (pass.ran /\ pass.all = <<>>) =>
        /\ [k \in 1..Len(pass.returned) |-> pass.returned[k].obj] = CacheValues(pass.before)
        /\ pass.after = pass.before
        /\ pass.heap_after = pass.heap_before

\* every strategy was invoked and came back empty, and two cached descriptors were
\* returned
C8_Witness ==
    /\ pass.ran
    /\ pass.calls = <<"direct", "mirror", "official">>
    /\ pass.all = <<>>
    /\ Len(pass.before) >= 2
    /\ Len(pass.returned) = Len(pass.before)

\* C9: every list a pass returns is ordered descending by the numeric tuple parsed
\* from the version string, from live strategies and from the cache fallback alike
\* (stated for the passes whose body ran through without an exception).
C9_ReturnedDescending ==
    (pass.ran /\ ~pass.fault) =>
        \A k \in 1..(Len(pass.returned) - 1) :
            ~ListLess(VersionKey(pass.returned[k].version),
                      VersionKey(pass.returned[k + 1].version))

\* C10: a pass invokes the strategies in the order direct, mirror, official, none
\* more than once, the mirror only if direct came back empty and the official site
\* only if every strategy before it came back empty.
C10_StrategyOrder ==
    pass.ran =>
        /\ pass.calls \in {<<"direct">>, <<"direct", "mirror">>, <<"direct", "official">>,
                           <<"direct", "mirror", "official">>}
        /\ (\E k \in 1..Len(pass.calls) : pass.calls[k] = "mirror")
              => pass.results.direct = <<>>
        /\ (\E k \in 1..Len(pass.calls) : pass.calls[k] = "official")
              => (pass.results.direct = <<>> /\ pass.results.mirror = <<>>)

\* direct came back with descriptors and nothing else was invoked
C10_Witness ==
    /\ pass.ran
    /\ use_mirror
    /\ pass.results.direct # <<>>
    /\ pass.calls = <<"direct">>

\* C11: a pass never raises to its caller, whatever the strategies and the save
\* did and whatever went wrong in its body: it returns a list, and the empty list
\* when every strategy came back empty and the cache is empty.
C11_NeverRaises ==
    pass.ran =>
        /\ ~pass.raised
        /\ (pass.all = <<>> /\ pass.before = <<>>) => pass.returned = <<>>
        /\ pass.fault =>
              [k \in 1..Len(pass.returned) |-> pass.returned[k].obj] = CacheValues(pass.after)

\* the body of a pass failed after a strategy had found descriptors, and the caller
\* got the cached list
C11_Witness ==
    /\ pass.ran
    /\ pass.fault
    /\ ~pass.raised
    /\ pass.all # <<>>
    /\ pass.returned # <<>>

\* the keys of the cache
Keys(c) == {c[k].key : k \in 1..Len(c)}

\* the descriptor object the cache holds under key
Entry(c, key) == (CHOOSE e \in {c[k] : k \in 1..Len(c)} : e.key = key).obj

\* C17: across every operation the key set of the in-memory version cache never
\* shrinks, and the descriptor a key maps to is replaced only by a descriptor that
\* the operation has just constructed for that same key.
C17_CacheOnlyGrows ==
    [][/\ Keys(version_cache) \subseteq Keys(version_cache')
       /\ \A key \in Keys(version_cache) :
             Entry(version_cache', key) # Entry(version_cache, key) =>
                 /\ Entry(version_cache', key) >= nextObj
                 /\ Entry(version_cache', key) < nextObj'
                 /\ heap'[Entry(version_cache', key)].version = key]_vars

\* a pass found a cached version again and replaced its descriptor by the new one
C17_Witness ==
    /\ pass.ran
    /\ Len(pass.before) = 1
    /\ Keys(pass.after) = Keys(pass.before)
    /\ Entry(pass.after, pass.before[1].key) # pass.before[1].obj
    /\ version_cache = pass.after

\* C18: after every operation that updates the in-memory version cache has returned
\* (get_available_versions, load_versions_from_json), and provided writing the file
\* did not fail, version_cache.json holds exactly the in-memory mapping version ->
\* descriptor (passes that ended in the except branch are left aside).
C18_FileFollowsCache ==
    (/\ last_op.op \in {"pass", "json"}
     /\ last_op.write # "failed"
     /\ ~(last_op.op = "pass" /\ pass.fault))
        => cache_file = Dump(version_cache, heap)

\* ------------------------------------------------------------ SpecExtract: extract_blender
\* the entry names archives are made of: a directory entry, files below it, a file
\* below another directory, and a file at top level
EntryNames ==
    { <<"a", "/">>,
      <<"a", "/", "x">>,
      <<"a", "/", "b", "/", "x">>,
      <<"b", "/", "x">>,
      <<"x">> }

\* name.split('/')
RECURSIVE SplitPathFrom(_, _)
SplitPathFrom(s, cur) ==
    IF s = <<>> THEN <<cur>>
    ELSE IF Head(s) = "/" THEN <<cur>> \o SplitPathFrom(Tail(s), <<>>)
    ELSE SplitPathFrom(Tail(s), Append(cur, Head(s)))

SplitPath(s) == SplitPathFrom(s, <<>>)

\* root_dirs: parts[0] of every name with len(parts) > 1
RootDirs(names) ==
    {SplitPath(names[k])[1] : k \in {j \in 1..Len(names) : Len(SplitPath(names[j])) > 1}}

\* the else branch of: if len(root_dirs) != 1
HasSingleRoot(names) == Cardinality(RootDirs(names)) = 1

\* os.path.basename(zip_path).replace('.zip', ''), as one path segment
ArchiveDirname == <<"z">>

\* extract_dir, as a path of one segment
ExtractDir == << <<"d">> >>

\* zip_ref.extractall(target): every entry lands at target joined with its path (the
\* empty last segment of a directory entry names the directory itself)
ExtractAll(names, target) ==
    {target \o SelectSeq(SplitPath(names[k]), LAMBDA seg : seg # <<>>) : k \in 1..Len(names)}

\* DownloadManager.extract_blender(zip_path, extract_dir). opened: the file is
\* missing (None is returned), or is no readable archive (the except branch returns
\* None), or is read.
extract_blender ==
    /\ ~extracted.ran
    /\ \E opened \in {"missing", "bad", "ok"} :
          extracted' =
              IF opened # "ok"
              THEN [ran |-> TRUE, returned |-> <<>>, rooted |-> FALSE, target |-> <<>>,
                    files |-> {}]
              ELSE IF HasSingleRoot(zip_names)
              THEN [ran |-> TRUE,
                    returned |-> Append(ExtractDir, CHOOSE r \in RootDirs(zip_names) : TRUE),
                    rooted |-> TRUE, target |-> ExtractDir,
                    files |-> ExtractAll(zip_names, ExtractDir)]
              ELSE [ran |-> TRUE, returned |-> Append(ExtractDir, ArchiveDirname),
                    rooted |-> FALSE, target |-> Append(ExtractDir, ArchiveDirname),
                    files |-> ExtractAll(zip_names, Append(ExtractDir, ArchiveDirname))]
    /\ UNCHANGED <<zip_names, rvars, cvars, dvars, vvars, svars>>

InitExtract ==
    /\ zip_names \in UNION {[1..n -> EntryNames] : n \in 0..MaxEntries}
    /\ extracted = [ran |-> FALSE, returned |-> <<>>, rooted |-> FALSE, target |-> <<>>,
                    files |-> {}]
    /\ InitRangesIdle
    /\ InitOneTask
    /\ InitDownloads
    /\ InitVersions

NextExtract == extract_blender

SpecExtract == InitExtract /\ [][NextExtract]_vars

\* ------------------------------------------------------------ claims on extraction
\* C21: extract_blender treats the archive as rooted, and extracts directly under
\* the target directory, exactly when every entry path has the same first path
\* segment; in every other case, a top-level directory plus a file at top level
\* included, it extracts into the directory named after the archive (stated for the
\* archives that hold an entry below a directory).
C21_RootedIffCommonSegment ==
    (/\ extracted.ran
     /\ extracted.returned # <<>>
     /\ \E k \in 1..Len(zip_names) : Len(SplitPath(zip_names[k])) > 1)
        => /\ extracted.rooted <=>
                 \A j, k \in 1..Len(zip_names) :
                     SplitPath(zip_names[j])[1] = SplitPath(zip_names[k])[1]
           /\ extracted.target = IF extracted.rooted THEN ExtractDir
                                 ELSE Append(ExtractDir, ArchiveDirname)

\* strategy name was invoked by the last pass
Invoked(name) == \E k \in 1..Len(pass.calls) : pass.calls[k] = name

\* the strategy after name in priority order, for the configuration
NextStrategy(name) ==
    IF name = "direct" /\ use_mirror THEN "mirror" ELSE "official"

\* C32: a connection, timeout, HTTP or parse error inside one scraping strategy
\* becomes an empty result of that strategy: the next strategy in priority order is
\* still invoked, and if it yields descriptors the pass returns them.
C32_StrategyErrorIsEmptyResult ==
    pass.ran =>
        \A name \in pass.errors :
            /\ pass.results[name] = <<>>
            /\ name # "official" =>
                  /\ Invoked(NextStrategy(name))
                  /\ (~pass.fault /\ pass.results[NextStrategy(name)] # <<>>) =>
                        LET found == pass.results[NextStrategy(name)]
                        IN  /\ pass.returned # <<>>
                            /\ \A k \in 1..Len(pass.returned) :
                                  \E j \in 1..Len(found) : pass.returned[k].obj = found[j]
                            /\ \A j \in 1..Len(found) :
                                  \E k \in 1..Len(pass.returned) :
                                     pass.returned[k].version = pass.heap_after[found[j]].version

\* the direct listing could not be fetched, the mirror could, and the caller got the
\* mirror's descriptors
C32_Witness ==
    /\ pass.ran
    /\ ~pass.fault
    /\ pass.errors = {"direct"}
    /\ pass.calls = <<"direct", "mirror">>
    /\ pass.results.mirror # <<>>
    /\ Len(pass.returned) >= 1
    /\ \A k \in 1..Len(pass.returned) :
          \E j \in 1..Len(pass.results.mirror) :
             pass.returned[k].obj = pass.results.mirror[j]

\* C37: in every reachable state each entry of the in-memory version cache is
\* stored under the key equal to the current version field of its descriptor, also
\* after get_download_url has refined the version of a descriptor the cache holds.
C37_KeyIsDescriptorVersion ==
    \A k \in 1..Len(version_cache) :
        version_cache[k].key = heap[version_cache[k].obj].version

\* ------------------------------------------------------------ claims on descriptors
\* C31: get_download_url and download_blender change no field of a descriptor
\* other than size, version and description (its url is left as it was), and no
\* field of a descriptor changes after its download has been started.
C31_UrlKeptAndFrozenOnceStarted ==
    [][\A o \in 1..MaxObj :
        /\ o < nextObj => heap'[o].url = heap[o].url
        /\ o \in requested => heap'[o] = heap[o]]_vars

====
